---- MODULE Spec2Model ----
(***************************************************************************)
(* The MCP python server of src/src/index.js as a state machine.           *)
(*                                                                         *)
(* The server is one Node.js process: the code between two awaits runs to  *)
(* completion, and requests interleave only at awaits.  `cur` names the    *)
(* request whose synchronous code is running (NoCall: the event loop is    *)
(* free); an action that ends at an await frees the loop, an action that   *)
(* ends at a function call or return keeps it, so that a synchronous chain *)
(* is never interleaved.  Child processes (python -m venv, pip, the        *)
(* snippet's interpreter) and recursive removals work on the disk while    *)
(* the server awaits them; their progress is a step of its own.            *)
(***************************************************************************)
EXTENDS Integers, Sequences, FiniteSets, TLC

\* ------------------------------------------------------------------ bounds
\* python_execute runs in one behaviour (each names a scratch file)
MaxRuns == 2
\* image files one snippet writes
MaxImages == 2

\* removals one call of ensureVirtualEnvironment is followed through
MaxRebuilds == 2

\* figures one snippet creates
MaxFigs == 2
\* files one snippet writes through the hooks
MaxFiles == 2
\* calls of plt.show() one snippet makes
MaxShows == 2
\* files in the directory collectImages is given
MaxDir == 5
\* files in the workspace the orphan scan is given
MaxWork == 3

\* addresses a figure object can live at: id(fig)
Ids == 1..MaxFigs

\* request slots: the requests that can be in flight at the same time
Calls == {"c1", "c2"}
NoCall == "none"
Packages == {"numpy"}
PyStates == {"missing", "noexec", "broken", "ok"}
Tools == {"python_execute", "python_install_package", "python_list_packages",
          "python_reset_environment", "file_read", "unknown_tool"}

VARIABLES
    \* the machine: which interpreter names resolve in PATH
    toolchain,
    \* the environment directory workspace/venv on disk
    venvDir, py, pip, pkgs,
    \* the workspace: workspace/images, its files, the temp_*.py files
    imageDir, imgs, temps, stale,
    \* the requests
    cur, pc, tool, args, stk, resp,
    \* locals of executePython and the state of its child
    run, cnt, snap, del, perr, nextRun,
    \* history: what happened to a request, for the properties below
    second, settled, fault, delFailed, sweepFailed, cleanupWarnings, why,
    \* (cleanupWarnings: the cleanup steps of the request's run that logged
    \* a warning, lines 716, 725, 746, 754 and 760)
    \* the interpreter of the request's run outlived the kill of its shell
    orph,
    \* the instrumented snippet inside the child: pyplot's open figures in
    \* activation order, the object at each address, _saved_figures,
    \* _image_counter, the files it wrote into IMAGE_DIR, its position
    open, objAt, saved_figures, image_counter, artifacts, nextObj, phase,
    \* the files the snippet wrote outside IMAGE_DIR, through plt.savefig
    outside,
    \* history of the snippet: figures displayed / explicitly saved, calls made
    displayed, savedRel, savedAbs, ops, shows,
    \* collectImages on its own: the directory it is given, what it returns
    dirFiles, collected, noted,
    \* the try block of executePython on its own: the platform and the
    \* configured memory limit, the command it builds, whether it warned,
    \* the error exec rejected with, the suggestion, its position
    platform, maxMemoryMB, execCommand, warned, errorDetails, errorAnalysis, attempt,
    \* the orphan scan on its own: the entries readdir gives it, which of
    \* them is the run's own scratch file, the entries it removed
    workDirContents, ownFile, unlinked, scanned

envVars == <<venvDir, py, pip, pkgs>>
wsVars == <<imageDir, imgs, temps, stale>>
ctlVars == <<cur, pc, tool, args, stk, resp>>
runVars == <<run, cnt, snap, del, perr, nextRun>>
histNoWhy == <<second, settled, fault, delFailed, sweepFailed, cleanupWarnings>>
histVars == <<histNoWhy, why>>
pyVars == <<open, objAt, saved_figures, image_counter, artifacts, nextObj, phase, outside>>
pyHist == <<displayed, savedRel, savedAbs, ops, shows>>
colVars == <<dirFiles, collected, noted>>
tryVars == <<platform, maxMemoryMB, execCommand, warned, errorDetails, errorAnalysis, attempt>>
scanVars == <<workDirContents, ownFile, unlinked, scanned>>
auxVars == <<pyVars, pyHist, colVars, tryVars, scanVars>>
srvVars == <<toolchain, envVars, wsVars, ctlVars, runVars, histVars, orph>>
vars == <<srvVars, auxVars>>

\* ------------------------------------------------------------ the response
NoResp == [isError |-> FALSE, text |-> "", hint |-> "", images |-> <<>>]

\* a tool's `return { content: [{type: 'text', text}] }`
TextResult(text) == [isError |-> FALSE, text |-> text, hint |-> "", images |-> <<>>]

\* a catch that returns the message without the flag
HandlerErrorDropsFlag(msg) == [isError |-> FALSE, text |-> msg, hint |-> "", images |-> <<>>]

\* the call handler's catch: { content: [text `Error [id]: message`], isError: true }
HandlerError(msg) == [isError |-> TRUE, text |-> msg, hint |-> "", images |-> <<>>]

\* Config: parseInt(process.env.MCP_MAX_MEMORY_MB) || 512
DefaultMemoryMB == 512

NoCommand == [ulimit |-> 0]
NoError == [code |-> "", killed |-> FALSE, outcome |-> "", stderr |-> {}]

NoDel == [temp |-> FALSE, img |-> FALSE, sweep |-> {}]
NoArgs == [setup_venv |-> FALSE, packages |-> {}]

\* -------------------------------------------------------------------- Init
\* The disk is as an earlier server process left it: no environment, a
\* complete one, or a damaged one.  The workspace holds no scratch files.
DiskStates ==
    {<<FALSE, "missing", FALSE, {}>>,
     <<TRUE, "ok", TRUE, {}>>,
     <<TRUE, "ok", TRUE, Packages>>,
     <<TRUE, "ok", FALSE, {}>>,
     <<TRUE, "missing", FALSE, {}>>,
     <<TRUE, "noexec", TRUE, {}>>,
     <<TRUE, "broken", TRUE, {}>>}

InitBase ==
    /\ toolchain \in {"python3", "python", "none"}
    /\ \E d \in DiskStates :
          /\ venvDir = d[1]
          /\ py = d[2]
          /\ pip = d[3]
          /\ pkgs = d[4]
    /\ imageDir = FALSE
    /\ imgs = [i \in 1..MaxImages |-> -1]
    /\ cur = NoCall
    /\ pc = [c \in Calls |-> "idle"]
    /\ tool = [c \in Calls |-> "none"]
    /\ args = [c \in Calls |-> NoArgs]
    /\ stk = [c \in Calls |-> <<>>]
    /\ resp = [c \in Calls |-> NoResp]
    /\ run = [c \in Calls |-> 0]
    /\ cnt = [c \in Calls |-> 0]
    /\ snap = [c \in Calls |-> <<>>]
    /\ del = [c \in Calls |-> NoDel]
    /\ perr = [c \in Calls |-> ""]
    /\ nextRun = 1
    /\ stale = {}
    /\ second = [c \in Calls |-> FALSE]
    /\ settled = FALSE
    /\ fault = FALSE
    /\ delFailed = [c \in Calls |-> FALSE]
    /\ sweepFailed = [c \in Calls |-> FALSE]
    /\ cleanupWarnings = [c \in Calls |-> {}]
    /\ why = [c \in Calls |-> "none"]
    /\ orph = [c \in Calls |-> FALSE]
    /\ open = <<>>
    /\ objAt = [a \in Ids |-> 0]
    /\ saved_figures = {}
    /\ image_counter = 0
    /\ artifacts = {}
    /\ nextObj = 1
    /\ phase = "off"
    /\ outside = {}
    /\ displayed = {}
    /\ savedRel = {}
    /\ savedAbs = {}
    /\ ops = {}
    /\ shows = 0
    /\ collected = <<>>
    /\ noted = "not run"
    /\ execCommand = NoCommand
    /\ warned = FALSE
    /\ errorDetails = NoError
    /\ errorAnalysis = ""
    /\ attempt = "off"
    /\ unlinked = {}
    /\ scanned = FALSE

\* Linux with the default memory limit; nothing is given to collectImages
\* and to the orphan scan on their own
InitServer ==
    /\ InitBase
    /\ dirFiles = <<>>
    /\ workDirContents = <<>>
    /\ ownFile = 0
    /\ platform = "linux"
    /\ maxMemoryMB = DefaultMemoryMB

\* the server starts on a workspace without scratch files
Init == InitServer /\ temps = {}

\* --------------------------------------------------------- control helpers
\* continue at label l; sync: the next step is synchronous code of c
Goto(c, l, sync) ==
    /\ pc' = [pc EXCEPT ![c] = l]
    /\ cur' = IF sync THEN c ELSE NoCall

\* an error that reaches the call handler's catch (lines 409-425): every
\* frame between the throw and the handler only wraps the message
Throw(c, msg) ==
    /\ pc' = [pc EXCEPT ![c] = "ret"]
    /\ cur' = NoCall
    /\ stk' = [stk EXCEPT ![c] = <<>>]
    /\ resp' = [resp EXCEPT ![c] = HandlerError(msg)]
    /\ why' = [why EXCEPT ![c] = "thrown"]

\* a tool function returns r to the call handler, which returns it
Respond(c, r) ==
    /\ pc' = [pc EXCEPT ![c] = "ret"]
    /\ cur' = NoCall
    /\ stk' = [stk EXCEPT ![c] = <<>>]
    /\ resp' = [resp EXCEPT ![c] = r]
    /\ why' = why

\* continue at l with the response and the stack as they are
Step(c, l, sync) ==
    /\ Goto(c, l, sync)
    /\ UNCHANGED <<stk, resp, why>>

Active(c) == pc[c] # "idle"
Free == cur = NoCall

\* the environment's content: anything inside workspace/venv
EnvEmpty == py = "missing" /\ ~pip /\ pkgs = {}
EnvValid == venvDir /\ py = "ok"

Front(s) == SubSeq(s, 1, Len(s) - 1)

\* history: a step of d that changes the environment ends every other
\* request's claim to be "ensure right after ensure"
Mutates(d) ==
    /\ settled' = FALSE
    /\ second' = [x \in Calls |-> IF x = d THEN second[x] ELSE FALSE]

\* --------------------------------------------------------- the call handler
ArgsOf(t) ==
    CASE t = "python_execute" ->
            [setup_venv : BOOLEAN, packages : SUBSET Packages]
      [] t = "python_install_package" ->
            [setup_venv : {FALSE}, packages : (SUBSET Packages) \ {{}}]
      [] OTHER -> {NoArgs}

\* the switch of the CallToolRequestSchema handler
Entry(t) ==
    CASE t = "python_execute" -> "xp"
      [] t = "python_install_package" -> "ip"
      [] t = "python_list_packages" -> "lp"
      [] t = "python_reset_environment" -> "rst"
      [] t = "file_read" -> "file"
      [] OTHER -> "unk"

\* a request arrives: the handler dispatches on the tool name.  `allowed`
\* and `plain` say which requests a specification sends.
CallTool(c, allowed, plain) ==
    /\ Free
    /\ pc[c] = "idle"
    /\ \E t \in allowed :
         /\ t = "python_execute" => nextRun <= MaxRuns
         /\ \E a \in ArgsOf(t) :
              /\ plain => a = NoArgs
              /\ tool' = [tool EXCEPT ![c] = t]
              /\ args' = [args EXCEPT ![c] = a]
              /\ Goto(c, Entry(t), TRUE)
    /\ fault' = IF \A d \in Calls \ {c} : ~Active(d) THEN FALSE ELSE fault
    /\ UNCHANGED <<toolchain, auxVars, orph, envVars, wsVars, stk, resp, runVars,
                   second, settled, delFailed, sweepFailed, cleanupWarnings, why>>

\* default: throw new Error(`Unknown tool: ${name}`), caught by the handler
UnknownTool(c) ==
    /\ cur = c
    /\ pc[c] = "unk"
    /\ Throw(c, "Unknown tool")
    /\ UNCHANGED <<toolchain, auxVars, orph, envVars, wsVars, tool, args, runVars, histNoWhy>>

\* a file tool: it returns its text, or wraps and rethrows what failed
FileTool(c) ==
    /\ cur = c
    /\ pc[c] = "file"
    /\ \/ Respond(c, TextResult("File content"))
       \/ Throw(c, "Failed to read file")
    /\ UNCHANGED <<toolchain, auxVars, orph, envVars, wsVars, tool, args, runVars, histNoWhy>>

\* the handler's return reaches the caller; the slot is free again
Deliver(c) ==
    /\ Free
    /\ pc[c] = "ret"
    /\ pc' = [pc EXCEPT ![c] = "idle"]
    /\ tool' = [tool EXCEPT ![c] = "none"]
    /\ args' = [args EXCEPT ![c] = NoArgs]
    /\ resp' = [resp EXCEPT ![c] = NoResp]
    /\ run' = [run EXCEPT ![c] = 0]
    /\ cnt' = [cnt EXCEPT ![c] = 0]
    /\ snap' = [snap EXCEPT ![c] = <<>>]
    /\ del' = [del EXCEPT ![c] = NoDel]
    /\ perr' = [perr EXCEPT ![c] = ""]
    /\ second' = [second EXCEPT ![c] = FALSE]
    /\ delFailed' = [delFailed EXCEPT ![c] = FALSE]
    /\ sweepFailed' = [sweepFailed EXCEPT ![c] = FALSE]
    /\ cleanupWarnings' = [cleanupWarnings EXCEPT ![c] = {}]
    /\ why' = [why EXCEPT ![c] = "none"]
    /\ orph' = [orph EXCEPT ![c] = FALSE]
    /\ UNCHANGED <<toolchain, auxVars, envVars, wsVars, cur, stk, nextRun, settled, fault>>

\* --------------------------------------------------------- resetEnvironment
\* a reset that removes nothing
ResetEntrySkipsRemoval(c) ==
    /\ cur = c
    /\ pc[c] = "rst"
    /\ Goto(c, "ens", TRUE) /\ stk' = [stk EXCEPT ![c] = Append(@, "rst")]
    /\ UNCHANGED <<toolchain, auxVars, orph, envVars, wsVars, tool, args, resp, runVars, histVars>>

\* if (existsSync(venvDir)) await fs.rm(...); await this.ensureVirtualEnvironment()
ResetEntry(c) ==
    /\ cur = c
    /\ pc[c] = "rst"
    /\ IF venvDir
         THEN Goto(c, "rst_rm", FALSE) /\ stk' = stk
         ELSE Goto(c, "ens", TRUE) /\ stk' = [stk EXCEPT ![c] = Append(@, "rst")]
    /\ UNCHANGED <<toolchain, auxVars, orph, envVars, wsVars, tool, args, resp, runVars, histVars>>

\* fs.rm(venvDir, {recursive, force}) at work: the recursive removal is not
\* atomic, it first unlinks what the directory holds
RmContents(c) ==
    /\ Free
    /\ pc[c] \in {"rst_rm", "ens_rm"}
    /\ py' = "missing"
    /\ pip' = FALSE
    /\ pkgs' = {}
    /\ Goto(c, IF pc[c] = "rst_rm" THEN "rst_rm2" ELSE "ens_rm2", FALSE)
    /\ Mutates(c)
    /\ UNCHANGED <<toolchain, auxVars, orph, venvDir, wsVars, tool, args, stk, resp, runVars,
                   fault, delFailed, sweepFailed, cleanupWarnings, why>>

\* fs.rm settles.  It removed the directory; or a concurrent writer put new
\* entries into it after they were listed, rmdir fails with ENOTEMPTY and the
\* promise rejects (force only ignores a missing path).  The code after the
\* await runs in a later turn of the event loop.
RmDone(c) ==
    /\ Free
    /\ pc[c] \in {"rst_rm2", "ens_rm2"}
    /\ \/ /\ venvDir' = FALSE
          /\ py' = "missing"
          /\ pip' = FALSE
          /\ pkgs' = {}
          /\ Goto(c, IF pc[c] = "rst_rm2" THEN "rst_again" ELSE "ens_again", FALSE)
          /\ UNCHANGED <<stk, resp, why>>
       \/ /\ venvDir
          /\ ~EnvEmpty
          /\ Throw(c, "ENOTEMPTY: directory not empty, rmdir")
          /\ UNCHANGED envVars
    /\ Mutates(c)
    /\ UNCHANGED <<toolchain, auxVars, orph, wsVars, tool, args, runVars, fault, delFailed, sweepFailed, cleanupWarnings>>

\* the calls of ensureVirtualEnvironment from inside itself that are on the
\* stack: one for every removal the call has made
Rebuilds(s) == Len(SelectSeq(s, LAMBDA f : f = "ens"))

\* the code after the awaited removal: line 495, `return
\* this.ensureVirtualEnvironment()`, ensure calling itself; line 1068 in
\* resetEnvironment
EnsureAgain(c) ==
    /\ Free
    /\ pc[c] \in {"rst_again", "ens_again"}
    /\ pc[c] = "ens_again" => Rebuilds(stk[c]) < MaxRebuilds
    /\ stk' = [stk EXCEPT ![c] = Append(@, IF pc[c] = "rst_again" THEN "rst" ELSE "ens")]
    /\ Goto(c, "ens", TRUE)
    /\ UNCHANGED <<toolchain, auxVars, orph, envVars, wsVars, tool, args, resp, runVars, histVars>>

\* await this.ensureVirtualEnvironment() returned inside resetEnvironment
ResetReturn(c) ==
    /\ cur = c
    /\ pc[c] = "rst_ok"
    /\ IF stk[c] = <<>>
         THEN Respond(c, TextResult("Virtual environment reset successfully"))
         ELSE /\ Goto(c, "xp_ens", TRUE)
              /\ stk' = [stk EXCEPT ![c] = Front(@)]
              /\ UNCHANGED <<resp, why>>
    /\ UNCHANGED <<toolchain, auxVars, orph, envVars, wsVars, tool, args, runVars, histNoWhy>>

\* ------------------------------------------------- ensureVirtualEnvironment
\* getPythonPath's synchronous part: existsSync(pythonPath)
PythonExists(pyv) == pyv # "missing"

\* getPythonPath's fs.access(pythonPath, F_OK | X_OK)
PythonExecutable(pyv) == pyv \in {"broken", "ok"}

\* `"${pythonPath}" --version` exits zero
PythonRuns(pyv) == pyv = "ok"

\* an ensure that takes an existing directory for a valid environment
EnsureBranchTrustsDirectory(dir, pyv) ==
    IF ~dir THEN "ens_ver" ELSE "ens_ok"

\* an ensure that rebuilds whatever it finds
EnsureBranchAlwaysRebuilds(dir, pyv) ==
    IF ~dir THEN "ens_ver" ELSE "ens_rm"

\* where ensureVirtualEnvironment goes first: creation when the directory is
\* absent; else the probe, whose synchronous failure (no interpreter file)
\* goes straight to the removal in the catch
EnsureBranch(dir, pyv) ==
    IF ~dir THEN "ens_ver"
    ELSE IF ~PythonExists(pyv) THEN "ens_rm"
    ELSE "ens_probe"

EnsureEntry(c) ==
    /\ cur = c
    /\ pc[c] = "ens"
    /\ LET l == EnsureBranch(venvDir, py) IN Goto(c, l, l = "ens_ok")
    /\ second' = [second EXCEPT ![c] = settled]
    /\ UNCHANGED <<toolchain, auxVars, orph, envVars, wsVars, tool, args, stk, resp, runVars,
                   settled, fault, delFailed, sweepFailed, cleanupWarnings, why>>

\* a probe that is content with an executable file
EnsureProbeSkipsVersion(c) ==
    /\ Free
    /\ pc[c] = "ens_probe"
    /\ IF PythonExecutable(py)
         THEN Goto(c, "ens_ok", TRUE)
         ELSE Goto(c, "ens_rm", FALSE)
    /\ UNCHANGED <<toolchain, auxVars, orph, envVars, wsVars, tool, args, stk, resp, runVars, histVars>>

\* the probe of an existing environment settles (fs.access, then --version)
EnsureProbe(c) ==
    /\ Free
    /\ pc[c] = "ens_probe"
    /\ IF PythonExecutable(py) /\ PythonRuns(py)
         THEN Goto(c, "ens_ok", TRUE)
         ELSE Goto(c, "ens_rm", FALSE)
    /\ UNCHANGED <<toolchain, auxVars, orph, envVars, wsVars, tool, args, stk, resp, runVars, histVars>>

\* an ensure that gives up when python3 does not resolve
EnsureVersionNoFallback(c) ==
    /\ Free
    /\ pc[c] = "ens_ver"
    /\ IF toolchain = "python3"
         THEN Step(c, "ens_venv", FALSE)
         ELSE Throw(c, "Neither python3 nor python found in PATH")
    /\ UNCHANGED <<toolchain, auxVars, orph, envVars, wsVars, tool, args, runVars, histNoWhy>>

\* `python3 --version` settles
EnsureVersion(c) ==
    /\ Free
    /\ pc[c] = "ens_ver"
    /\ IF toolchain = "python3"
         THEN Goto(c, "ens_venv", FALSE)
         ELSE Goto(c, "ens_ver2", FALSE)
    /\ UNCHANGED <<toolchain, auxVars, orph, envVars, wsVars, tool, args, stk, resp, runVars, histVars>>

\* `python --version` settles
EnsureVersion2(c) ==
    /\ Free
    /\ pc[c] = "ens_ver2"
    /\ IF toolchain = "python"
         THEN Step(c, "ens_venv", FALSE) /\ UNCHANGED fault
         ELSE Throw(c, "Neither python3 nor python found in PATH") /\ fault' = TRUE
    /\ UNCHANGED <<toolchain, auxVars, orph, envVars, wsVars, tool, args, runVars,
                   second, settled, delFailed, sweepFailed, cleanupWarnings>>

\* `python -m venv` at work: it makes the directories first
VenvMkdir(c) ==
    /\ Free
    /\ pc[c] = "ens_venv"
    /\ venvDir' = TRUE
    /\ Goto(c, "ens_venv2", FALSE)
    /\ Mutates(c)
    /\ UNCHANGED <<toolchain, auxVars, orph, py, pip, pkgs, wsVars, tool, args, stk, resp, runVars,
                   fault, delFailed, sweepFailed, cleanupWarnings, why>>

\* `python -m venv` exits and the code after the await runs up to the
\* fs.access of getPythonPath
VenvExit(c) ==
    /\ Free
    /\ pc[c] = "ens_venv2"
    /\ \/ \* exit 0, interpreter and pip in place
          /\ venvDir
          /\ py' = "ok" /\ pip' = TRUE
          /\ UNCHANGED <<venvDir, pkgs, fault>>
          /\ Step(c, "ens_acc", FALSE)
       \/ \* exit 0 with 'Error' on stderr: line 470 throws
          /\ venvDir
          /\ py' = "ok" /\ pip' = TRUE
          /\ UNCHANGED <<venvDir, pkgs>>
          /\ fault' = TRUE
          /\ Throw(c, "Virtual environment creation failed")
       \/ \* ensurepip fails: the interpreter is linked, pip is not installed
          /\ venvDir
          /\ py' = "ok"
          /\ UNCHANGED <<venvDir, pip, pkgs>>
          /\ fault' = TRUE
          /\ Throw(c, "Failed to create virtual environment")
       \/ \* the directory was removed under it: it fails
          /\ ~venvDir
          /\ UNCHANGED <<envVars, fault>>
          /\ Throw(c, "Failed to create virtual environment")
       \/ \* the directory was removed under it while ensurepip ran, which
          \* writes pip into a directory it makes again; getPythonPath throws
          /\ ~venvDir
          /\ venvDir' = TRUE /\ pip' = TRUE
          /\ UNCHANGED <<py, pkgs, fault>>
          /\ IF PythonExists(py)
               THEN Step(c, "ens_acc", FALSE)
               ELSE Throw(c, "Python executable not found")
    /\ Mutates(c)
    /\ UNCHANGED <<toolchain, auxVars, orph, wsVars, tool, args, runVars, delFailed, sweepFailed, cleanupWarnings>>

\* line 475: getPythonPath's fs.access settles; line 476: getPipPath's existsSync
EnsureVerify(c) ==
    /\ Free
    /\ pc[c] = "ens_acc"
    /\ IF PythonExecutable(py) /\ pip
         THEN Step(c, "ens_acc2", FALSE)
         ELSE Throw(c, "Failed to create virtual environment")
    /\ UNCHANGED <<toolchain, auxVars, orph, envVars, wsVars, tool, args, runVars, histNoWhy>>

\* line 476: getPipPath's fs.access settles; the creation branch is done
EnsureVerify2(c) ==
    /\ Free
    /\ pc[c] = "ens_acc2"
    /\ IF pip
         THEN Step(c, "ens_ok", TRUE)
         ELSE Throw(c, "Failed to create virtual environment")
    /\ UNCHANGED <<toolchain, auxVars, orph, envVars, wsVars, tool, args, runVars, histNoWhy>>

\* an executePython that goes from ensure straight to the scratch file
AfterEnsureSkipsRequirements(caller) ==
    CASE caller = "rst" -> "rst_ok"
      [] caller = "ens" -> "ens_ok"
      [] caller = "ip" -> "ip_pip"
      [] caller = "lp" -> "lp_pip"
      [] OTHER -> "xp_scratch"

\* where the caller of ensureVirtualEnvironment continues; ensure that
\* called itself returns what the inner call returned
AfterEnsure(caller) ==
    CASE caller = "rst" -> "rst_ok"
      [] caller = "ens" -> "ens_ok"
      [] caller = "ip" -> "ip_pip"
      [] caller = "lp" -> "lp_pip"
      [] OTHER -> "xp_reqs"

\* ensureVirtualEnvironment returns to its caller
EnsureReturn(c) ==
    /\ cur = c
    /\ pc[c] = "ens_ok"
    /\ Goto(c, AfterEnsure(stk[c][Len(stk[c])]), TRUE)
    /\ stk' = [stk EXCEPT ![c] = Front(@)]
    /\ settled' = TRUE
    /\ second' = [second EXCEPT ![c] = FALSE]
    /\ UNCHANGED <<toolchain, auxVars, orph, envVars, wsVars, tool, args, resp, runVars,
                   fault, delFailed, sweepFailed, cleanupWarnings, why>>

\* ---------------------------------------------- installPackages, listPackages
\* validatePackages; await this.ensureVirtualEnvironment()
InstallEntry(c) ==
    /\ cur = c
    /\ pc[c] \in {"ip", "lp"}
    /\ stk' = [stk EXCEPT ![c] = Append(@, pc[c])]
    /\ Goto(c, "ens", TRUE)
    /\ UNCHANGED <<toolchain, auxVars, orph, envVars, wsVars, tool, args, resp, runVars, histVars>>

\* getPipPath: existsSync(pipPath), then await fs.access
PipPath(c) ==
    /\ cur = c
    /\ pc[c] \in {"ip_pip", "lp_pip"}
    /\ IF pip
         THEN Step(c, IF pc[c] = "ip_pip" THEN "ip_acc" ELSE "lp_acc", FALSE)
         ELSE Throw(c, "Pip executable not found")
    /\ UNCHANGED <<toolchain, auxVars, orph, envVars, wsVars, tool, args, runVars, histNoWhy>>

\* getPipPath's fs.access settles and pip is started
PipStart(c) ==
    /\ Free
    /\ pc[c] \in {"ip_acc", "lp_acc"}
    /\ IF pip
         THEN Step(c, IF pc[c] = "ip_acc" THEN "ip_run" ELSE "lp_run", FALSE)
         ELSE Throw(c, "Pip executable is not accessible or executable")
    /\ UNCHANGED <<toolchain, auxVars, orph, envVars, wsVars, tool, args, runVars, histNoWhy>>

\* a failed installation that takes the installed packages along
PipInstallExitWipes(c) ==
    /\ Free
    /\ pc[c] = "ip_run"
    /\ \/ /\ pkgs' = pkgs \cup args[c].packages
          /\ venvDir' = TRUE
          /\ UNCHANGED <<py, pip, fault>>
          /\ IF stk[c] = <<>>
               THEN Respond(c, TextResult("Packages installed successfully"))
               ELSE /\ Goto(c, "xp_scratch", TRUE)
                    /\ stk' = [stk EXCEPT ![c] = Front(@)]
                    /\ UNCHANGED <<resp, why>>
       \/ /\ pkgs' = {}
          /\ UNCHANGED <<venvDir, py, pip>>
          /\ fault' = (fault \/ (EnvValid /\ pip))
          /\ Throw(c, "Failed to install packages")
    /\ Mutates(c)
    /\ UNCHANGED <<toolchain, auxVars, orph, wsVars, tool, args, runVars, delFailed, sweepFailed, cleanupWarnings>>

\* `pip install ...` exits.  Exit 0: the packages are in site-packages (pip
\* makes the directories it writes to); else installPackages throws.
PipInstallExit(c) ==
    /\ Free
    /\ pc[c] = "ip_run"
    /\ \/ /\ pkgs' = pkgs \cup args[c].packages
          /\ venvDir' = TRUE
          /\ UNCHANGED <<py, pip, fault>>
          /\ IF stk[c] = <<>>
               THEN Respond(c, TextResult("Packages installed successfully"))
               ELSE /\ Goto(c, "xp_scratch", TRUE)
                    /\ stk' = [stk EXCEPT ![c] = Front(@)]
                    /\ UNCHANGED <<resp, why>>
       \/ /\ UNCHANGED envVars
          /\ fault' = (fault \/ (EnvValid /\ pip))
          /\ Throw(c, "Failed to install packages")
    /\ Mutates(c)
    /\ UNCHANGED <<toolchain, auxVars, orph, wsVars, tool, args, runVars, delFailed, sweepFailed, cleanupWarnings>>

\* `pip list` exits
PipListExit(c) ==
    /\ Free
    /\ pc[c] = "lp_run"
    /\ IF pip /\ PythonRuns(py)
         THEN Respond(c, TextResult("Installed packages"))
         ELSE Throw(c, "Failed to list packages")
    /\ UNCHANGED <<toolchain, auxVars, orph, envVars, wsVars, tool, args, runVars, histNoWhy>>


\* ------------------------------------------------------------ collectImages
NoFile == [owner |-> -1, ext |-> "", size |-> 0, b64 |-> FALSE]

\* what the instrumented snippet writes: plot_<n>.png, a complete image
PlotFile(owner) == [owner |-> owner, ext |-> "png", size |-> 200, b64 |-> TRUE]

\* the glob pattern *.{png,jpg,jpeg,gif,svg}
ImageExts == {"png", "jpg", "jpeg", "gif", "svg"}
MinImageSize == 100
MaxReturned == 3

\* the switch on the extension
MimeType(ext) ==
    CASE ext \in {"jpg", "jpeg"} -> "image/jpeg"
      [] ext = "gif" -> "image/gif"
      [] ext = "svg" -> "image/svg+xml"
      [] OTHER -> "image/png"

\* a collection without the slice
LimitedNot(files) == files

\* imageFiles.slice(0, 3)
Limited(files) == SubSeq(files, 1, IF Len(files) < MaxReturned THEN Len(files) ELSE MaxReturned)

\* a loop that takes a file of any size
ProcessImageKeepsSmall(f) ==
    IF f = NoFile \/ ~f.b64
      THEN <<>>
      ELSE <<[data |-> f.owner, mimeType |-> MimeType(f.ext)]>>

\* one pass of the for loop: the file is skipped (fs.stat throws on a file
\* that is gone, too small, not base64) or gives one image
ProcessImage(f) ==
    IF f = NoFile \/ f.size < MinImageSize \/ ~f.b64
      THEN <<>>
      ELSE <<[data |-> f.owner, mimeType |-> MimeType(f.ext)]>>

RECURSIVE ProcessImages(_)
ProcessImages(files) ==
    IF files = <<>> THEN <<>>
    ELSE ProcessImage(Head(files)) \o ProcessImages(Tail(files))

\* glob(join(imageDir, '*.{png,jpg,jpeg,gif,svg}')): the directory's entries
\* with an image extension, in discovery order
Glob(d) == SelectSeq(d, LAMBDA f : f.ext \in ImageExts)

\* collectImages on an existing directory d
CollectImages(d) == ProcessImages(Limited(Glob(d)))

\* lines 991-993: the note that only the first three are shown
Note(d) == IF Len(Glob(d)) > MaxReturned THEN "first 3 shown" ELSE "all shown"

\* the files a directory can hold: any extension, whole or cut short
FileKinds == [ext : {"png", "jpg", "txt"}, size : {50, 200}]

Directories ==
    UNION {[1..n -> FileKinds] : n \in 0..MaxDir}

\* entry i of the directory d as collectImages sees it
Entries(d) ==
    [i \in 1..Len(d) |-> [owner |-> i, ext |-> d[i].ext, size |-> d[i].size, b64 |-> TRUE]]

\* collectImages runs on the directory
CollectRun ==
    /\ noted = "not run"
    /\ collected' = CollectImages(dirFiles)
    /\ noted' = Note(dirFiles)
    /\ UNCHANGED <<srvVars, pyVars, pyHist, tryVars, scanVars, dirFiles>>

\* ------------------------------------------------------------ executePython
ChildOutcomes == {"exit0", "exit1", "timeout", "signal", "maxbuffer"}
\* the texts the error analysis looks for in stderr; a stderr is modelled by
\* the set of those it includes
StderrPatterns == {"ModuleNotFoundError", "SyntaxError", "MemoryError", "Permission"}
StderrKinds == {{}, {"ModuleNotFoundError"}}

\* the error exec rejects with: code, killed (set when Node itself killed the
\* child: the timeout), cmd is always set
ExecError(o) ==
    CASE o = "exit1" -> [code |-> "1", killed |-> FALSE]
      [] o = "timeout" -> [code |-> "UNKNOWN", killed |-> TRUE]
      [] o = "signal" -> [code |-> "UNKNOWN", killed |-> FALSE]
      [] OTHER -> [code |-> "ERR_CHILD_PROCESS_STDIO_MAXBUFFER", killed |-> FALSE]

\* lines 670-687: the suggestion appended to the failure text
ErrorAnalysis(e, stderr) ==
    IF e.code = "ETIMEDOUT" THEN "timed out: optimize or increase the timeout"
    ELSE IF e.killed THEN "terminated, possibly due to resource limits"
    ELSE IF "ModuleNotFoundError" \in stderr THEN "install the missing module"
    ELSE IF "SyntaxError" \in stderr THEN "check your syntax"
    ELSE IF "MemoryError" \in stderr THEN "reduce data size or increase memory limits"
    ELSE IF "Permission" \in stderr THEN "check file permissions"
    ELSE ""

\* join(workDir, 'images'): the same path in every run
ImageDirPath(c) == "workspace/images"

\* join(workDir, `temp_${Date.now()}_${random}.py`): a name of the run's own
TempFilePath(c) == <<"workspace/temp", run[c]>>

\* the finally block's synchronous part: which deletions it starts
\* a cleanup that leaves the images directory behind
CleanupPlanKeepsImages(tempExists, dirExists) ==
    [temp |-> tempExists, img |-> FALSE, sweep |-> {}]

CleanupPlan(tempExists, dirExists) ==
    [temp |-> tempExists, img |-> dirExists, sweep |-> {}]

\* validatePythonCode; if (setup_venv) await this.resetEnvironment()
ExecEntry(c) ==
    /\ cur = c
    /\ pc[c] = "xp"
    /\ IF args[c].setup_venv
         THEN Goto(c, "rst", TRUE) /\ stk' = [stk EXCEPT ![c] = Append(@, "xp")]
         ELSE Goto(c, "xp_ens", TRUE) /\ stk' = stk
    /\ UNCHANGED <<toolchain, auxVars, orph, envVars, wsVars, tool, args, resp, runVars, histVars>>

\* an executePython that makes its scratch resources before the environment
ExecEnsureAfterScratch(c) ==
    /\ cur = c
    /\ pc[c] = "xp_ens"
    /\ nextRun <= MaxRuns
    /\ imageDir' = TRUE
    /\ run' = [run EXCEPT ![c] = nextRun]
    /\ nextRun' = nextRun + 1
    /\ temps' = temps \cup {nextRun}
    /\ stk' = [stk EXCEPT ![c] = Append(@, "xp")]
    /\ Goto(c, "ens", TRUE)
    /\ UNCHANGED <<toolchain, auxVars, orph, envVars, imgs, stale, tool, args, resp,
                   cnt, snap, del, perr, histVars>>

\* line 567: await this.ensureVirtualEnvironment()
ExecEnsure(c) ==
    /\ cur = c
    /\ pc[c] = "xp_ens"
    /\ stk' = [stk EXCEPT ![c] = Append(@, "xp")]
    /\ Goto(c, "ens", TRUE)
    /\ UNCHANGED <<toolchain, auxVars, orph, envVars, wsVars, tool, args, resp, runVars, histVars>>

\* lines 569-571: if (requirements.length > 0) await this.installPackages(...)
ExecRequirements(c) ==
    /\ cur = c
    /\ pc[c] = "xp_reqs"
    /\ IF args[c].packages # {}
         THEN Goto(c, "ip", TRUE) /\ stk' = [stk EXCEPT ![c] = Append(@, "xp")]
         ELSE Goto(c, "xp_scratch", TRUE) /\ stk' = stk
    /\ UNCHANGED <<toolchain, auxVars, orph, envVars, wsVars, tool, args, resp, runVars, histVars>>

\* lines 573-589: mkdir images, write the scratch file, getPythonPath's
\* existsSync.  A throw inside the try reaches the catch, whose
\* `executionError.cmd || execCommand` reads a variable of the try block:
\* a ReferenceError leaves the catch, the finally block runs, and the error
\* goes on to the handler.
ExecScratch(c) ==
    /\ cur = c
    /\ pc[c] = "xp_scratch"
    /\ nextRun <= MaxRuns
    /\ imageDir' = TRUE
    /\ run' = [run EXCEPT ![c] = nextRun]
    /\ nextRun' = nextRun + 1
    /\ \E written \in {"whole", "partly", "not"} :
         \* writeFileSync returns, or throws (no space, no permission) and
         \* leaves a truncated file or none
         /\ temps' = IF written = "not" THEN temps ELSE temps \cup {nextRun}
         /\ IF written = "whole" /\ PythonExists(py)
              THEN /\ Goto(c, "xp_acc", FALSE)
                   /\ UNCHANGED <<perr, del>>
              ELSE /\ perr' = [perr EXCEPT ![c] = "execCommand is not defined"]
                   /\ del' = [del EXCEPT ![c] = CleanupPlan(written # "not", TRUE)]
                   /\ Goto(c, "xp_sweep", FALSE)
    /\ UNCHANGED <<toolchain, auxVars, orph, envVars, imgs, stale, tool, args, stk, resp,
                   cnt, snap, histVars>>

\* getPythonPath's fs.access settles; existsSync(tempFile); exec is started
ExecSpawn(c) ==
    /\ Free
    /\ pc[c] = "xp_acc"
    /\ IF PythonExecutable(py) /\ run[c] \in temps
         THEN /\ Goto(c, "xp_child", FALSE)
              /\ UNCHANGED <<perr, del>>
         ELSE /\ perr' = [perr EXCEPT ![c] = "execCommand is not defined"]
              /\ del' = [del EXCEPT ![c] = CleanupPlan(run[c] \in temps, imageDir)]
              /\ Goto(c, "xp_sweep", FALSE)
    /\ UNCHANGED <<toolchain, auxVars, orph, envVars, wsVars, tool, args, stk, resp,
                   run, cnt, snap, nextRun, histVars>>

\* the child runs the instrumentation's head: os.makedirs(IMAGE_DIR, exist_ok=True)
ChildPrologue(c) ==
    /\ Free
    /\ pc[c] = "xp_child"
    /\ PythonRuns(py)
    /\ imageDir' = TRUE
    /\ Goto(c, "xp_run", FALSE)
    /\ UNCHANGED <<toolchain, auxVars, orph, envVars, imgs, temps, stale, tool, args, stk, resp,
                   runVars, histVars>>

\* the child persists a figure: plot_<_image_counter>.png, then counts it.
\* (In a directory that is gone savefig fails and nothing is counted.)
ChildWrite(c) ==
    /\ Free
    /\ pc[c] = "xp_run"
    /\ cnt[c] < MaxImages
    /\ imageDir
    /\ imgs' = [imgs EXCEPT ![cnt[c] + 1] = run[c]]
    /\ cnt' = [cnt EXCEPT ![c] = @ + 1]
    /\ UNCHANGED <<toolchain, auxVars, orph, envVars, imageDir, temps, stale, ctlVars,
                   run, snap, del, perr, nextRun, histVars>>

\* the files glob finds in workspace/images, in discovery order
Listing == SelectSeq([i \in 1..MaxImages |-> i], LAMBDA i : imageDir /\ imgs[i] # -1)

SuccessText == "Output / Code executed successfully"

\* line 689: the text of the failure response executePython returns
FailureText == "Python execution failed"

\* lines 643-650: stdout, then stderr under 'Error/Warning:'
ResultText(stderr) ==
    IF stderr = {} THEN SuccessText ELSE "Output / Error/Warning"

\* an exec that takes output on stderr for a failure
ExecSucceedsOnlySilent(o, stderr) == o = "exit0" /\ stderr = {}

\* line 626: the promise of exec resolves when the child exits with status
\* zero before the timeout and within maxBuffer, whatever it wrote
ExecSucceeds(o, stderr) == o = "exit0"

\* exec settles.  Exit 0: collectImages starts (existsSync, then glob).
\* Otherwise the catch builds the failure response.  The finally block's
\* synchronous part follows a return without an await.
\* exec's kill() (timeout, maxBuffer) signals the process it spawned, the
\* shell of `ulimit -v ... && "python" "file"`.  A shell that replaced itself
\* by the interpreter takes it along; a shell that forked it (dash) dies
\* alone and the interpreter runs on.
Survives(o) == IF o \in {"timeout", "maxbuffer"} THEN BOOLEAN ELSE {FALSE}

\* an executePython that collects the images of a failed run as well
ChildExitCollectsOnFailure(c) ==
    /\ Free
    /\ pc[c] \in {"xp_child", "xp_run"}
    /\ \E o \in ChildOutcomes, e \in StderrKinds :
         /\ o = "exit0" => pc[c] = "xp_run"
         /\ why' = [why EXCEPT ![c] = o]
         /\ \E left \in Survives(o) :
              /\ left => pc[c] = "xp_run"
              /\ orph' = [orph EXCEPT ![c] = left]
         /\ IF ExecSucceeds(o, e)
              THEN IF imageDir
                     THEN /\ resp' = [resp EXCEPT ![c] =
                                 [isError |-> FALSE, text |-> ResultText(e),
                                  hint |-> "", images |-> <<>>]]
                          /\ Goto(c, "xp_glob", FALSE)
                          /\ UNCHANGED del
                     ELSE /\ resp' = [resp EXCEPT ![c] =
                                 [isError |-> FALSE, text |-> ResultText(e),
                                  hint |-> "", images |-> <<>>]]
                          /\ del' = [del EXCEPT ![c] = CleanupPlan(run[c] \in temps, imageDir)]
                          /\ Goto(c, "xp_sweep", FALSE)
              ELSE /\ resp' = [resp EXCEPT ![c] =
                          [isError |-> TRUE, text |-> FailureText,
                           hint |-> ErrorAnalysis(ExecError(o), e), images |-> <<>>]]
                   /\ IF imageDir
                        THEN Goto(c, "xp_glob", FALSE) /\ UNCHANGED del
                        ELSE /\ del' = [del EXCEPT ![c] =
                                          CleanupPlan(run[c] \in temps, imageDir)]
                             /\ Goto(c, "xp_sweep", FALSE)
    /\ UNCHANGED <<toolchain, auxVars, envVars, wsVars, tool, args, stk,
                   run, cnt, snap, perr, nextRun, second, settled, fault, delFailed, sweepFailed, cleanupWarnings>>

\* exec settles: the response of executePython, or the start of collectImages
ChildExit(c) ==
    /\ Free
    /\ pc[c] \in {"xp_child", "xp_run"}
    /\ \E o \in ChildOutcomes, e \in StderrKinds :
         /\ o = "exit0" => pc[c] = "xp_run"
         /\ why' = [why EXCEPT ![c] = o]
         /\ \E left \in Survives(o) :
              /\ left => pc[c] = "xp_run"
              /\ orph' = [orph EXCEPT ![c] = left]
         /\ IF ExecSucceeds(o, e)
              THEN IF imageDir
                     THEN /\ resp' = [resp EXCEPT ![c] =
                                 [isError |-> FALSE, text |-> ResultText(e),
                                  hint |-> "", images |-> <<>>]]
                          /\ Goto(c, "xp_glob", FALSE)
                          /\ UNCHANGED del
                     ELSE /\ resp' = [resp EXCEPT ![c] =
                                 [isError |-> FALSE, text |-> ResultText(e),
                                  hint |-> "", images |-> <<>>]]
                          /\ del' = [del EXCEPT ![c] = CleanupPlan(run[c] \in temps, imageDir)]
                          /\ Goto(c, "xp_sweep", FALSE)
              ELSE /\ resp' = [resp EXCEPT ![c] =
                          [isError |-> TRUE, text |-> FailureText,
                           hint |-> ErrorAnalysis(ExecError(o), e), images |-> <<>>]]
                   /\ del' = [del EXCEPT ![c] = CleanupPlan(run[c] \in temps, imageDir)]
                   /\ Goto(c, "xp_sweep", FALSE)
    /\ UNCHANGED <<toolchain, auxVars, envVars, wsVars, tool, args, stk,
                   run, cnt, snap, perr, nextRun, second, settled, fault, delFailed, sweepFailed, cleanupWarnings>>

\* collectImages: glob settles with the listing
ExecGlob(c) ==
    /\ Free
    /\ pc[c] = "xp_glob"
    /\ IF Listing = <<>>
         THEN /\ resp' = [resp EXCEPT ![c].images = <<>>]
              /\ del' = [del EXCEPT ![c] = CleanupPlan(run[c] \in temps, imageDir)]
              /\ snap' = snap
              /\ Goto(c, "xp_sweep", FALSE)
         ELSE /\ snap' = [snap EXCEPT ![c] = Listing]
              /\ UNCHANGED <<resp, del>>
              /\ Goto(c, "xp_stat", FALSE)
    /\ UNCHANGED <<toolchain, auxVars, orph, envVars, wsVars, tool, args, stk,
                   run, cnt, perr, nextRun, histVars>>

\* what fs.stat and readFileSync find under a listed name now
FileNow(i) == IF imageDir /\ imgs[i] # -1 THEN PlotFile(imgs[i]) ELSE NoFile

\* collectImages: the loop over the first three listed files, then the
\* success response and the finally block's synchronous part
ExecCollect(c) ==
    /\ Free
    /\ pc[c] = "xp_stat"
    /\ LET limited == Limited(snap[c])
           files == [k \in 1..Len(limited) |-> FileNow(limited[k])]
       IN resp' = [resp EXCEPT ![c].images = ProcessImages(files)]
    /\ del' = [del EXCEPT ![c] = CleanupPlan(run[c] \in temps, imageDir)]
    /\ Goto(c, "xp_sweep", FALSE)
    /\ UNCHANGED <<toolchain, auxVars, orph, envVars, wsVars, tool, args, stk,
                   run, cnt, snap, perr, nextRun, histVars>>

\* A file name, by the parts the pattern /^temp_\d+_\w+\.py$/ looks at.  The
\* name of a scratch file (line 583) is temp_<Date.now()>_<random>.py; its
\* random part is empty only when Math.random() returns exactly 0, a case
\* that is not followed here.
ScratchName == [head |-> "temp", stamp |-> "digits", rest |-> "word", ext |-> "py"]

\* other names a workspace holds: temp_notes_v2.py, data_1_a.py, temp_1_a.txt
WorkNames ==
    {ScratchName,
     [head |-> "temp", stamp |-> "letters", rest |-> "word", ext |-> "py"],
     [head |-> "data", stamp |-> "digits", rest |-> "word", ext |-> "py"],
     [head |-> "temp", stamp |-> "digits", rest |-> "word", ext |-> "txt"]}

\* line 733: tempFilePattern.test(file)
TempFilePattern(n) ==
    n.head = "temp" /\ n.stamp = "digits" /\ n.rest = "word" /\ n.ext = "py"

\* a scan that does not look at the age
SweepTasksAnyAge(listing, own) ==
    {f.id : f \in {g \in listing : TempFilePattern(g.name) /\ g.id # own}}

\* a scan that unlinks nothing
SweepTasksNone(listing, own) == {}

\* lines 732-758: the entries the scan pushes an unlink for.  An entry is
\* [id, name, age]: fresh, old (modified more than an hour ago) or gone
\* (listed by readdir, no longer there when fs.stat looks: the catch pushes
\* the unlink all the same).
SweepTasks(listing, own) ==
    {f.id : f \in {g \in listing : /\ TempFilePattern(g.name)
                                   /\ g.id # own
                                   /\ g.age \in {"old", "gone"}}}

\* readdir(workDir) in the server: the scratch files
WorkDirListing ==
    {[id |-> t, name |-> ScratchName, age |-> IF t \in stale THEN "old" ELSE "fresh"] :
        t \in temps}

\* the finally block's orphan scan: readdir, then a stat of every other
\* temp_*.py; the ones older than an hour are to be unlinked.  A readdir
\* that rejects is caught (line 759): a warning, nothing is swept.
ExecSweep(c) ==
    /\ Free
    /\ pc[c] = "xp_sweep"
    /\ \E listed \in BOOLEAN :
         /\ del' = [del EXCEPT ![c].sweep =
                       IF listed THEN SweepTasks(WorkDirListing, run[c]) ELSE {}]
         /\ sweepFailed' = [sweepFailed EXCEPT ![c] = ~listed]
         /\ cleanupWarnings' = [cleanupWarnings EXCEPT ![c] =
                                   IF listed THEN {} ELSE {"scan"}]
    /\ Goto(c, "xp_settle", FALSE)
    /\ UNCHANGED <<toolchain, auxVars, orph, envVars, wsVars, tool, args, stk, resp,
                   run, cnt, snap, perr, nextRun, second, settled, fault, delFailed, why>>

\* a cleanup that awaits its deletions without catching: the first one
\* that fails is thrown to the caller
ExecSettleEscalates(c) ==
    /\ Free
    /\ pc[c] = "xp_settle"
    /\ \E failed \in SUBSET {"temp", "img", "sweep"} :
         /\ "temp" \in failed => del[c].temp
         /\ "img" \in failed => del[c].img
         /\ "sweep" \in failed => del[c].sweep # {}
         /\ LET gone == (IF del[c].temp /\ "temp" \notin failed THEN {run[c]} ELSE {})
                        \cup (IF "sweep" \notin failed THEN del[c].sweep ELSE {})
                rmdir == del[c].img /\ "img" \notin failed
            IN /\ temps' = temps \ gone
               /\ stale' = stale \ gone
               /\ imageDir' = IF rmdir THEN FALSE ELSE imageDir
               /\ imgs' = IF rmdir THEN [i \in 1..MaxImages |-> -1] ELSE imgs
         /\ delFailed' = [delFailed EXCEPT ![c] = failed \cap {"temp", "img"} # {}]
         /\ sweepFailed' = [sweepFailed EXCEPT ![c] = @ \/ "sweep" \in failed]
         /\ cleanupWarnings' = [cleanupWarnings EXCEPT ![c] = @ \cup failed]
         /\ IF perr[c] # ""
              THEN Throw(c, perr[c])
              ELSE IF failed # {}
                     THEN Throw(c, "cleanup failed")
                     ELSE Respond(c, resp[c])
    /\ UNCHANGED <<toolchain, auxVars, orph, envVars, tool, args, runVars,
                   second, settled, fault>>

\* Promise.allSettled(cleanupTasks): the deletions have run, each one done
\* or failed with a warning; then executePython returns, or the pending
\* error goes on to the handler
ExecSettle(c) ==
    /\ Free
    /\ pc[c] = "xp_settle"
    /\ \E failed \in SUBSET {"temp", "img", "sweep"} :
         /\ "temp" \in failed => del[c].temp
         /\ "img" \in failed => del[c].img
         /\ "sweep" \in failed => del[c].sweep # {}
         /\ LET gone == (IF del[c].temp /\ "temp" \notin failed THEN {run[c]} ELSE {})
                        \cup (IF "sweep" \notin failed THEN del[c].sweep ELSE {})
                rmdir == del[c].img /\ "img" \notin failed
            IN /\ temps' = temps \ gone
               /\ stale' = stale \ gone
               /\ imageDir' = IF rmdir THEN FALSE ELSE imageDir
               /\ imgs' = IF rmdir THEN [i \in 1..MaxImages |-> -1] ELSE imgs
         /\ delFailed' = [delFailed EXCEPT ![c] = failed \cap {"temp", "img"} # {}]
         /\ sweepFailed' = [sweepFailed EXCEPT ![c] = @ \/ "sweep" \in failed]
         /\ cleanupWarnings' = [cleanupWarnings EXCEPT ![c] = @ \cup failed]
    /\ IF perr[c] # ""
         THEN Throw(c, perr[c])
         ELSE Respond(c, resp[c])
    /\ UNCHANGED <<toolchain, auxVars, orph, envVars, tool, args, runVars,
                   second, settled, fault>>

\* an hour passes over a scratch file that no run in flight owns
Age ==
    /\ Free
    /\ \E t \in temps \ stale :
         /\ \A c \in Calls : run[c] # t
         /\ stale' = stale \cup {t}
    /\ UNCHANGED <<toolchain, auxVars, orph, envVars, imageDir, imgs, temps, ctlVars, runVars, histVars>>

\* the files a workspace can hold when the scan reads it
WorkKinds == [name : WorkNames, age : {"fresh", "old", "gone"}]

WorkDirs == UNION {[1..n -> WorkKinds] : n \in 0..MaxWork}

\* the entries of the workspace d as the scan sees them
WorkEntries(d) == {[id |-> i, name |-> d[i].name, age |-> d[i].age] : i \in 1..Len(d)}

\* the orphan scan and its unlinks on the workspace: an unlink of an entry
\* that is gone fails, any other may fail, each with a warning only
ScanRun ==
    /\ ~scanned
    /\ LET tasks == SweepTasks(WorkEntries(workDirContents), ownFile)
       IN \E failed \in SUBSET tasks :
            unlinked' = {i \in tasks \ failed : workDirContents[i].age # "gone"}
    /\ scanned' = TRUE
    /\ UNCHANGED <<srvVars, pyVars, pyHist, colVars, tryVars, workDirContents, ownFile>>

\* ------------------------------------------------------ injectImageCapture
\* The Python text put around the caller's code, run by the child.  A figure
\* is an object with a number (plt.get_fignums) living at an address (id);
\* CPython gives a new object any address no live object has, the address
\* of a collected figure included.

Range(q) == {q[i] : i \in DOMAIN q}
Remove(q, a) == SelectSeq(q, LAMBDA x : x # a)

\* for fig_num in plt.get_fignums(): the open figures by ascending number
FigNums ==
    CHOOSE q \in [1..Len(open) -> Ids] :
        /\ Range(q) = Range(open)
        /\ \A i, j \in 1..Len(open) : i < j => objAt[q[i]] < objAt[q[j]]

\* a hook that writes whatever it is shown
NotYetSavedIgnoresRecord(a, sv) == TRUE

\* line 814: if fig_id not in _saved_figures
NotYetSaved(a, sv) == a \notin sv

\* _capture_plt_show's loop over the figures q, from the state st =
\* [saved, counter, written]: an unsaved figure is written as plot_<counter>.png
RECURSIVE CaptureLoop(_, _)
CaptureLoop(q, st) ==
    IF q = <<>> THEN st
    ELSE LET a == Head(q) IN
         IF NotYetSaved(a, st.saved)
           THEN CaptureLoop(Tail(q),
                    [saved |-> st.saved \cup {a},
                     counter |-> st.counter + 1,
                     written |-> st.written \cup
                        {[prefix |-> "plot", n |-> st.counter, obj |-> objAt[a]]}])
           ELSE CaptureLoop(Tail(q), st)

\* plt.show() as hooked: the loop, which also makes each figure the current
\* one in turn (plt.figure(fig_num)); the original show of the Agg backend
\* closes nothing
CaptureShow ==
    LET st == CaptureLoop(FigNums, [saved |-> saved_figures,
                                   counter |-> image_counter,
                                   written |-> artifacts])
    IN /\ saved_figures' = st.saved
       /\ image_counter' = st.counter
       /\ artifacts' = st.written
       /\ open' = FigNums

Running == phase = "run"

\* the caller's code: plt.figure()
NewFigure ==
    /\ Running
    /\ nextObj <= MaxFigs
    /\ \E a \in Ids \ Range(open) :
         /\ open' = Append(open, a)
         /\ objAt' = [objAt EXCEPT ![a] = nextObj]
    /\ nextObj' = nextObj + 1
    /\ ops' = ops \cup {"figure"}
    /\ UNCHANGED <<srvVars, colVars, tryVars, scanVars, outside, saved_figures, image_counter, artifacts, phase,
                   displayed, savedRel, savedAbs, shows>>

\* the caller's code: plt.show()
UserShow ==
    /\ Running
    /\ shows < MaxShows
    /\ image_counter + Cardinality(Range(open) \ saved_figures) <= MaxFiles
    /\ CaptureShow
    /\ displayed' = displayed \cup {objAt[a] : a \in Range(open)}
    /\ shows' = shows + 1
    /\ ops' = ops \cup {"show"}
    /\ UNCHANGED <<srvVars, colVars, tryVars, scanVars, outside, objAt, nextObj, phase, savedRel, savedAbs>>

\* the caller's code: plt.savefig('name.png') with a figure open.  The hook
\* redirects a relative name to saved_<counter>.png in IMAGE_DIR.
UserSavefigRelative ==
    /\ Running
    /\ open # <<>>
    /\ image_counter < MaxFiles
    /\ LET a == open[Len(open)] IN
         /\ artifacts' = artifacts \cup
               {[prefix |-> "saved", n |-> image_counter, obj |-> objAt[a]]}
         /\ saved_figures' = saved_figures \cup {a}
         /\ savedRel' = savedRel \cup {objAt[a]}
    /\ image_counter' = image_counter + 1
    /\ ops' = ops \cup {"savefig"}
    /\ UNCHANGED <<srvVars, colVars, tryVars, scanVars, outside, open, objAt, nextObj, phase, displayed, savedAbs, shows>>

\* the absolute destination the caller's code names, outside IMAGE_DIR
AbsPaths == {"/out/a.png"}

\* _original_savefig(fname): the file at fname is the current figure's
WriteFile(files, fname, o) ==
    {f \in files : f.path # fname} \cup {[path |-> fname, obj |-> o]}

\* a hook that takes every destination into IMAGE_DIR
UserSavefigAbsoluteRedirects ==
    /\ Running
    /\ open # <<>>
    /\ image_counter < MaxFiles
    /\ \E fname \in AbsPaths :
         LET a == open[Len(open)] IN
         /\ artifacts' = artifacts \cup
               {[prefix |-> "saved", n |-> image_counter, obj |-> objAt[a]]}
         /\ saved_figures' = saved_figures \cup {a}
         /\ savedAbs' = savedAbs \cup {objAt[a]}
    /\ image_counter' = image_counter + 1
    /\ ops' = ops \cup {"savefig"}
    /\ UNCHANGED <<srvVars, colVars, tryVars, scanVars, outside, open, objAt, nextObj, phase,
                   displayed, savedRel, shows>>

\* the caller's code: plt.savefig('/abs/name.png'): written where the caller
\* said, recorded as saved
UserSavefigAbsolute ==
    /\ Running
    /\ open # <<>>
    /\ \E fname \in AbsPaths :
         LET a == open[Len(open)] IN
         /\ saved_figures' = saved_figures \cup {a}
         /\ savedAbs' = savedAbs \cup {objAt[a]}
         /\ outside' = WriteFile(outside, fname, objAt[a])
    /\ ops' = ops \cup {"savefig"}
    /\ UNCHANGED <<srvVars, colVars, tryVars, scanVars, open, objAt, image_counter, artifacts, nextObj, phase,
                   displayed, savedRel, shows>>

\* the caller's code: plt.close(fig); the figure object is collected and its
\* address is free again.  _saved_figures keeps the id.
UserClose ==
    /\ Running
    /\ \E a \in Range(open) :
         /\ open' = Remove(open, a)
         /\ objAt' = [objAt EXCEPT ![a] = 0]
    /\ ops' = ops \cup {"close"}
    /\ UNCHANGED <<srvVars, colVars, tryVars, scanVars, outside, saved_figures, image_counter, artifacts, nextObj, phase,
                   displayed, savedRel, savedAbs, shows>>

\* a hook that does not count the file it wrote
UserPilShowKeepsCounter ==
    /\ Running
    /\ image_counter < MaxFiles
    /\ artifacts' = artifacts \cup {[prefix |-> "pil", n |-> image_counter, obj |-> 0]}
    /\ image_counter' = image_counter
    /\ ops' = ops \cup {"pil"}
    /\ UNCHANGED <<srvVars, colVars, tryVars, scanVars, outside, open, objAt, saved_figures, nextObj, phase,
                   displayed, savedRel, savedAbs, shows>>

\* the caller's code: image.show() of PIL, hooked to pil_<counter>.png
UserPilShow ==
    /\ Running
    /\ image_counter < MaxFiles
    /\ artifacts' = artifacts \cup {[prefix |-> "pil", n |-> image_counter, obj |-> 0]}
    /\ image_counter' = image_counter + 1
    /\ ops' = ops \cup {"pil"}
    /\ UNCHANGED <<srvVars, colVars, tryVars, scanVars, outside, open, objAt, saved_figures, nextObj, phase,
                   displayed, savedRel, savedAbs, shows>>

\* lines 880-896: the caller's code is over; plt.show() if a figure is open
\* whose id is not in _saved_figures
FinalPass ==
    /\ Running
    /\ image_counter + Cardinality(Range(open) \ saved_figures) <= MaxFiles
    /\ IF \E a \in Range(open) : a \notin saved_figures
         THEN CaptureShow
         ELSE UNCHANGED <<open, saved_figures, image_counter, artifacts>>
    /\ phase' = "done"
    /\ UNCHANGED <<srvVars, colVars, tryVars, scanVars, outside, objAt, nextObj, displayed, savedRel, savedAbs, ops, shows>>

\* the child starts: the head of the instrumentation has run
SnippetStart ==
    /\ phase = "off"
    /\ phase' = "run"
    /\ UNCHANGED <<srvVars, colVars, tryVars, scanVars, outside, open, objAt, saved_figures, image_counter, artifacts, nextObj,
                   displayed, savedRel, savedAbs, ops, shows>>

Snippet ==
    \/ SnippetStart \/ NewFigure \/ UserShow \/ UserSavefigRelative
    \/ UserSavefigAbsolute \/ UserClose \/ UserPilShow \/ FinalPass

\* an interpreter that outlived its run goes on with the snippet and persists
\* a figure (it is followed until the response is delivered)
OrphanWrite(c) ==
    /\ Free
    /\ orph[c]
    /\ cnt[c] < MaxImages
    /\ imageDir
    /\ imgs' = [imgs EXCEPT ![cnt[c] + 1] = run[c]]
    /\ cnt' = [cnt EXCEPT ![c] = @ + 1]
    /\ UNCHANGED <<toolchain, auxVars, orph, envVars, imageDir, temps, stale, ctlVars,
                   run, snap, del, perr, nextRun, histVars>>

\* ------------------------------------------- the try block of executePython
\* Lines 596-692 on their own: the command is built for the platform, exec
\* settles, and a rejection is analysed.
Platforms == {"linux", "win32", "darwin"}

\* maxMemoryMB is the parsed environment variable unless that is 0 or NaN
MemorySettings == {-1, DefaultMemoryMB}

\* lines 603-605: the `ulimit -v` prefix of the command, in KB; 0: no prefix
UlimitKB(pf, mb) == IF pf = "linux" /\ mb > 0 THEN mb * 1024 ELSE 0

\* lines 606-610: the warning that the limit is not fully supported
WarnsUnenforced(pf, mb) == pf = "win32" /\ mb > 0

\* lines 597-612: execCommand is put together
BuildCommand ==
    /\ attempt = "off"
    /\ execCommand' = [ulimit |-> UlimitKB(platform, maxMemoryMB)]
    /\ warned' = WarnsUnenforced(platform, maxMemoryMB)
    /\ attempt' = "built"
    /\ UNCHANGED <<srvVars, pyVars, pyHist, colVars, scanVars, platform, maxMemoryMB,
                   errorDetails, errorAnalysis>>

\* line 626: exec resolves
ExecResolves ==
    /\ attempt = "built"
    /\ attempt' = "resolved"
    /\ UNCHANGED <<srvVars, pyVars, pyHist, colVars, scanVars, platform, maxMemoryMB,
                   execCommand, warned, errorDetails, errorAnalysis>>

\* line 626 rejects; lines 659-667: errorDetails is taken from the error
ExecRejects ==
    /\ attempt = "built"
    /\ \E o \in ChildOutcomes \ {"exit0"}, s \in SUBSET StderrPatterns :
         errorDetails' = [code |-> ExecError(o).code, killed |-> ExecError(o).killed,
                          outcome |-> o, stderr |-> s]
    /\ attempt' = "failed"
    /\ UNCHANGED <<srvVars, pyVars, pyHist, colVars, scanVars, platform, maxMemoryMB,
                   execCommand, warned, errorAnalysis>>

\* lines 670-687: the error is analysed
Diagnose ==
    /\ attempt = "failed"
    /\ errorAnalysis' = ErrorAnalysis(errorDetails, errorDetails.stderr)
    /\ attempt' = "diagnosed"
    /\ UNCHANGED <<srvVars, pyVars, pyHist, colVars, scanVars, platform, maxMemoryMB,
                   execCommand, warned, errorDetails>>

\* ---------------------------------------------------------- specification
EnvTools == {"python_install_package", "python_list_packages", "python_reset_environment"}

Handler(c) ==
    \/ UnknownTool(c) \/ FileTool(c) \/ Deliver(c)

EnvironmentManager(c) ==
    \/ ResetEntry(c) \/ RmContents(c) \/ RmDone(c) \/ EnsureAgain(c) \/ ResetReturn(c)
    \/ EnsureEntry(c) \/ EnsureProbe(c) \/ EnsureVersion(c) \/ EnsureVersion2(c)
    \/ VenvMkdir(c) \/ VenvExit(c) \/ EnsureVerify(c) \/ EnsureVerify2(c)
    \/ EnsureReturn(c)
    \/ InstallEntry(c) \/ PipPath(c) \/ PipStart(c)
    \/ PipInstallExit(c) \/ PipListExit(c)

ExecutionEngine(c) ==
    \/ ExecEntry(c) \/ ExecEnsure(c) \/ ExecRequirements(c) \/ ExecScratch(c)
    \/ ExecSpawn(c) \/ ChildPrologue(c) \/ ChildWrite(c) \/ ChildExit(c)
    \/ ExecGlob(c) \/ ExecCollect(c) \/ ExecSweep(c) \/ ExecSettle(c)
    \/ OrphanWrite(c)

\* one request at a time, any tool, any disk
CallAny(c) == CallTool(c, Tools, FALSE)

Next ==
    \/ Age
    \/ CallAny("c1") \/ Handler("c1")
    \/ EnvironmentManager("c1") \/ ExecutionEngine("c1")

Spec == Init /\ [][Next]_vars

\* concurrent requests to the environment tools, any disk
CallEnvTool(c) == CallTool(c, EnvTools, FALSE)

NextEnv ==
    \E c \in Calls : CallEnvTool(c) \/ Deliver(c) \/ EnvironmentManager(c)

SpecEnv == Init /\ [][NextEnv]_vars

\* concurrent python_execute requests without setup_venv or requirements, on
\* a machine with python3 and a complete environment
InitRuns == Init /\ toolchain = "python3" /\ EnvValid /\ pip /\ pkgs = {}

CallExecute(c) == CallTool(c, {"python_execute"}, TRUE)

EnsureExisting(c) ==
    \/ EnsureEntry(c) \/ EnsureProbe(c) \/ EnsureReturn(c)

NextRuns ==
    \/ Age
    \/ \E c \in Calls :
         CallExecute(c) \/ Deliver(c) \/ EnsureExisting(c) \/ ExecutionEngine(c)

SpecRuns == InitRuns /\ [][NextRuns]_vars

\* the instrumented snippet alone, for any sequence of the caller's calls
InitSnippet == Init /\ toolchain = "python3" /\ EnvValid /\ pip /\ pkgs = {}

NextSnippet == Snippet

SpecSnippet == InitSnippet /\ [][NextSnippet]_vars


\* collectImages alone, on any directory
InitCollect ==
    /\ InitBase /\ platform = "linux" /\ maxMemoryMB = DefaultMemoryMB
    /\ temps = {} /\ workDirContents = <<>> /\ ownFile = 0
    /\ toolchain = "python3" /\ EnvValid /\ pip /\ pkgs = {}
    /\ \E d \in Directories : dirFiles = Entries(d)

NextCollect == CollectRun

SpecCollect == InitCollect /\ [][NextCollect]_vars

\* the try block alone, on any platform, for any rejection of exec
InitAttempt ==
    /\ InitBase /\ dirFiles = <<>>
    /\ temps = {} /\ workDirContents = <<>> /\ ownFile = 0
    /\ toolchain = "python3" /\ EnvValid /\ pip /\ pkgs = {}
    /\ platform \in Platforms
    /\ maxMemoryMB \in MemorySettings

NextAttempt == BuildCommand \/ ExecResolves \/ ExecRejects \/ Diagnose

SpecAttempt == InitAttempt /\ [][NextAttempt]_vars

\* the orphan scan alone, on any workspace; the run's own scratch file is
\* one of the fresh entries, or was never written
InitScan ==
    /\ InitBase /\ dirFiles = <<>> /\ temps = {}
    /\ platform = "linux" /\ maxMemoryMB = DefaultMemoryMB
    /\ toolchain = "python3" /\ EnvValid /\ pip /\ pkgs = {}
    /\ workDirContents \in WorkDirs
    /\ ownFile \in {0} \cup {i \in 1..Len(workDirContents) :
                                /\ workDirContents[i].name = ScratchName
                                /\ workDirContents[i].age = "fresh"}

NextScan == ScanRun

SpecScan == InitScan /\ [][NextScan]_vars

\* the scratch file a run of an earlier server process left behind when the
\* process died before the run's cleanup
Leftover == MaxRuns + 1

\* python_execute requests, one at a time, on a valid environment and a
\* workspace that holds the leftover file
InitRecover ==
    /\ InitServer /\ temps = {Leftover}
    /\ toolchain = "python3" /\ EnvValid /\ pip /\ pkgs = {}

NextRecover ==
    \/ Age
    \/ CallExecute("c1") \/ Deliver("c1") \/ EnsureExisting("c1")
    \/ ExecutionEngine("c1")

SpecRecover == InitRecover /\ [][NextRecover]_vars

\* a python_execute request (without setup_venv or requirements) and a
\* python_reset_environment request in flight together, on a machine with
\* python3 and a complete environment
\* resetEnvironment and the steps of ensureVirtualEnvironment it leads to
Rebuild(c) ==
    \/ ResetEntry(c) \/ RmContents(c) \/ RmDone(c) \/ EnsureAgain(c) \/ ResetReturn(c)
    \/ EnsureEntry(c) \/ EnsureProbe(c) \/ EnsureVersion(c)
    \/ VenvMkdir(c) \/ VenvExit(c) \/ EnsureVerify(c) \/ EnsureReturn(c)

NextShared ==
    \/ CallExecute("c1") \/ Deliver("c1") \/ Rebuild("c1") \/ ExecutionEngine("c1")
    \/ CallTool("c2", {"python_reset_environment"}, TRUE)
    \/ Deliver("c2") \/ Rebuild("c2")

SpecShared == InitRuns /\ [][NextShared]_vars

TypeOK ==
    /\ toolchain \in {"python3", "python", "none"}
    /\ venvDir \in BOOLEAN /\ py \in PyStates /\ pip \in BOOLEAN
    /\ pkgs \subseteq Packages
    /\ imageDir \in BOOLEAN
    /\ temps \subseteq 1..(MaxRuns + 1) /\ stale \subseteq temps
    /\ cur \in Calls \cup {NoCall}
    /\ nextRun \in 1..(MaxRuns + 1)
    /\ \A c \in Calls : cleanupWarnings[c] \subseteq {"temp", "img", "sweep", "scan"}

\* ------------------------------------------------------------- properties
Returned(c) == pc[c] = "ret"

\* the request is a python_execute that wrote (or tried to write) its scratch file
RanSnippet(c) == tool[c] = "python_execute" /\ run[c] # 0

\* C1: when a python_execute that is alone in the server has returned and its
\* deletions succeeded, its scratch file and workspace/images do not exist,
\* whether the child exited zero, non-zero, was killed, or an error was
\* thrown after the scratch file was written.
C1_CleanupAfterRun ==
    \A c \in Calls :
        (Returned(c) /\ RanSnippet(c) /\ ~delFailed[c])
            => (run[c] \notin temps /\ ~imageDir)

\* a run killed on timeout has returned, its deletions succeeded
C1_Witness ==
    /\ Returned("c1") /\ RanSnippet("c1") /\ ~delFailed["c1"]
    /\ why["c1"] = "timeout"
    /\ run["c1"] \notin temps /\ ~imageDir

\* every started request has returned and at least one is still to be delivered
AllReturned ==
    /\ \A c \in Calls : pc[c] \in {"idle", "ret"}
    /\ \E c \in Calls : Returned(c)

\* C2: after any interleaving of concurrent ensure / reset / install requests
\* in which no tool failed by itself, once all have returned the environment
\* is valid: the directory exists and its interpreter runs.
C2_ValidAfterConcurrency ==
    (AllReturned /\ ~fault) => EnvValid

\* the request is inside a step that changes the environment directory
InMutation(c) ==
    pc[c] \in {"rst_rm", "rst_rm2", "ens_rm", "ens_rm2", "ens_venv", "ens_venv2", "ip_run"}

\* C3: at no time are two mutating operations (removal, creation, install)
\* in progress on the environment at once.
C3_MutualExclusion ==
    \A c, d \in Calls : c # d => ~(InMutation(c) /\ InMutation(d))

TimeoutHint == ErrorAnalysis([code |-> "ETIMEDOUT", killed |-> TRUE], {})
KilledHint == ErrorAnalysis([code |-> "UNKNOWN", killed |-> TRUE], {})

\* C4: a run whose child was terminated for exceeding the time limit returns
\* the timed-out report, which is not the report of a child killed for
\* another reason.
C4_TimeoutReported ==
    \A c \in Calls :
        (Returned(c) /\ why[c] = "timeout")
            => (resp[c].hint = TimeoutHint /\ resp[c].hint # KilledHint)

\* the invocation failed: an error was thrown, or the child did not exit zero
Failed(c) == why[c] \notin {"none", "exit0"}

\* C5: every invocation returns a response with a text and an isError flag,
\* and every failed invocation returns isError = TRUE.
C5_AlwaysAResponse ==
    \A c \in Calls :
        Returned(c) =>
            /\ resp[c].text # ""
            /\ resp[c].isError \in BOOLEAN
            /\ Failed(c) => resp[c].isError

\* a tool threw and the handler answered with the error response
C5_Witness ==
    /\ Returned("c1") /\ why["c1"] = "thrown"
    /\ tool["c1"] = "python_list_packages"
    /\ resp["c1"].isError /\ resp["c1"].text # ""

\* C6: when ensureVirtualEnvironment returns successfully (one request at a
\* time; the environment absent, valid or corrupted at the start) the
\* directory exists and its interpreter exists and is executable.
C6_EnsureEstablishes ==
    \A c \in Calls :
        pc[c] = "ens_ok" => (venvDir /\ PythonExists(py) /\ PythonExecutable(py))

\* ensure returns inside a reset: it started from an absent environment
C6_Witness ==
    /\ pc["c1"] = "ens_ok" /\ tool["c1"] = "python_reset_environment"
    /\ venvDir /\ PythonExecutable(py)

\* C7: an ensure that follows a successful ensure with nothing in between
\* only probes: it goes from its entry to the probe and from the probe to
\* its return, it starts no creation and no removal, and it leaves the
\* environment as it was.
C7_EnsureIdempotent ==
    [][\A c \in Calls :
         /\ (settled /\ pc[c] = "ens" /\ pc'[c] # "ens")
               => (pc'[c] = "ens_probe" /\ UNCHANGED envVars)
         /\ (second[c] /\ pc[c] = "ens_probe" /\ pc'[c] # "ens_probe")
               => (pc'[c] = "ens_ok" /\ UNCHANGED envVars)]_vars

\* the second ensure is about to return
C7_Witness ==
    second["c1"] /\ pc["c1"] = "ens_ok" /\ EnvValid

\* C8: every image a run returns was written by that run's own child.
C8_OwnImagesOnly ==
    \A c \in Calls :
        (Returned(c) /\ RanSnippet(c))
            => \A k \in DOMAIN resp[c].images : resp[c].images[k].data = run[c]

\* the run has its scratch paths and has not returned
InFlight(c) ==
    run[c] # 0 /\ pc[c] \in {"xp_acc", "xp_child", "xp_run", "xp_glob", "xp_stat",
                            "xp_sweep", "xp_settle"}

\* C9: two runs in flight at once use different scratch program paths and
\* different artifact directory paths.
C9_DistinctScratchPaths ==
    \A c, d \in Calls :
        (c # d /\ InFlight(c) /\ InFlight(d))
            => /\ TempFilePath(c) # TempFilePath(d)
               /\ ImageDirPath(c) # ImageDirPath(d)

\* the run's child is writing, or its images are still to be collected
Uncollected(d) == pc[d] \in {"xp_run", "xp_glob", "xp_stat"}

\* C10: the cleanup of one run never deletes the artifact directory, or the
\* files in it, of another run that is writing or has yet to collect.
C10_CleanupSparesOthers ==
    [][\A c, d \in Calls :
         (c # d /\ pc[c] = "xp_settle" /\ pc'[c] # "xp_settle" /\ Uncollected(d))
            => /\ imageDir => imageDir'
               /\ \A i \in 1..MaxImages : imgs[i] = run[d] => imgs'[i] = run[d]]_vars

\* the files in IMAGE_DIR that show figure object o
FilesOf(o) == {f \in artifacts : f.obj = o}

\* the figure objects the snippet created
Created == 1..(nextObj - 1)

\* C11: a snippet that only creates figures and calls plt.show(), any number
\* of times, ends with exactly one file per figure: n figures, n files.
C11_OneFilePerFigure ==
    (phase = "done" /\ ops \subseteq {"figure", "show"})
        => /\ Cardinality(artifacts) = nextObj - 1
           /\ \A o \in Created : Cardinality(FilesOf(o)) = 1

\* two figures, plt.show() called twice, two files
C11_Witness ==
    /\ phase = "done" /\ ops = {"figure", "show"}
    /\ shows = 2 /\ displayed = {1, 2}
    /\ Cardinality(artifacts) = 2

\* C12: a figure that was displayed and also saved under a relative name, in
\* either order, has exactly one file in IMAGE_DIR.
C12_ShownAndSavedOnce ==
    \A o \in displayed \cap savedRel : Cardinality(FilesOf(o)) = 1

\* C13: when the snippet has completed, every figure still open that was
\* neither displayed nor explicitly saved has exactly one file, written by
\* the final pass.
C13_FinalPassPersists ==
    phase = "done" =>
        \A a \in Range(open) :
            objAt[a] \notin (displayed \cup savedRel \cup savedAbs)
                => Cardinality(FilesOf(objAt[a])) = 1

\* the file is one collectImages accepts
ValidImage(f) == f.ext \in ImageExts /\ f.size >= MinImageSize

CollectDone == noted # "not run"

\* C14: collectImages returns at most 3 artifacts; on a directory of n valid
\* images and nothing else it returns the first min(n, 3) in discovery
\* order, and notes the omission exactly when n > 3.
C14_FirstThree ==
    CollectDone =>
        /\ Len(collected) <= 3
        /\ (\A i \in DOMAIN dirFiles : ValidImage(dirFiles[i])) =>
              /\ Len(collected) = (IF Len(dirFiles) < 3 THEN Len(dirFiles) ELSE 3)
              /\ \A k \in DOMAIN collected : collected[k].data = dirFiles[k].owner
              /\ (Len(dirFiles) > 3) <=> (noted = "first 3 shown")

\* five valid images: the first three are returned, the omission is noted
C14_Witness ==
    /\ CollectDone /\ Len(dirFiles) = 5
    /\ \A i \in DOMAIN dirFiles : ValidImage(dirFiles[i])
    /\ Len(collected) = 3 /\ noted = "first 3 shown"
    /\ \A k \in 1..3 : collected[k].data = k

\* C15: collectImages returns no artifact for a file under 100 bytes or with
\* an extension outside png, jpg, jpeg, gif, svg; it still returns.
C15_SmallAndForeignDropped ==
    CollectDone =>
        \A k \in DOMAIN collected :
            /\ collected[k].data \in DOMAIN dirFiles
            /\ dirFiles[collected[k].data].size >= MinImageSize
            /\ dirFiles[collected[k].data].ext \in ImageExts

\* a 50-byte png and a text file give nothing, the valid image next to them
\* is returned
C15_Witness ==
    /\ CollectDone /\ Len(dirFiles) = 3
    /\ dirFiles[1].ext = "png" /\ dirFiles[1].size = 50
    /\ dirFiles[2].ext = "txt" /\ dirFiles[2].size = 200
    /\ ValidImage(dirFiles[3])
    /\ Len(collected) = 1 /\ collected[1].data = 3

\* C16: a reset removes the environment directory if there is one (a missing
\* one is no error: alone, a reset fails only when the toolchain or the
\* creation fails) and recreates it; after a successful reset the
\* environment is valid and holds no package.
C16_ResetGivesFreshEnvironment ==
    \A c \in Calls :
        (Returned(c) /\ tool[c] = "python_reset_environment") =>
            /\ ~resp[c].isError => (EnvValid /\ pip /\ pkgs = {})
            /\ resp[c].isError => fault

\* a reset has returned successfully
C16_Witness ==
    /\ Returned("c1") /\ tool["c1"] = "python_reset_environment"
    /\ ~resp["c1"].isError /\ EnvValid /\ pkgs = {}

\* C17: a python_execute whose child ran returns isError = TRUE exactly when
\* the child did not exit with status zero (non-zero exit, signal, timeout,
\* output ceiling); output on stderr does not make a zero exit a failure.
C17_SuccessIffExitZero ==
    \A c \in Calls :
        (Returned(c) /\ RanSnippet(c) /\ why[c] \in ChildOutcomes)
            => (resp[c].isError <=> why[c] # "exit0")

\* a zero exit with output on stderr has returned as a success
C17_Witness ==
    /\ Returned("c1") /\ RanSnippet("c1") /\ why["c1"] = "exit0"
    /\ resp["c1"].text = ResultText({"ModuleNotFoundError"})
    /\ ~resp["c1"].isError

\* executePython before its scratch resources: reset, ensure, requirements
EnvPhase ==
    {"xp", "xp_ens", "xp_reqs", "rst", "rst_rm", "rst_rm2", "rst_again", "rst_ok",
     "ens", "ens_ver", "ens_ver2", "ens_venv", "ens_venv2", "ens_acc", "ens_acc2",
     "ens_probe", "ens_rm", "ens_rm2", "ens_again", "ens_ok", "ip", "ip_pip", "ip_acc", "ip_run"}

\* C18: while python_execute is at its reset, ensure or installation it
\* creates no scratch file and no artifact directory and spawns no child for
\* the snippet; when it ends there, it ends with an error response.
C18_EnvironmentFailureAborts ==
    [][\A c \in Calls :
         (tool[c] = "python_execute" /\ pc[c] \in EnvPhase /\ pc'[c] # pc[c]) =>
            /\ UNCHANGED <<imageDir, imgs, temps>>
            /\ run'[c] = 0 /\ cnt'[c] = 0
            /\ pc'[c] \notin {"xp_acc", "xp_child", "xp_run"}
            /\ pc'[c] = "ret" => resp'[c].isError]_vars

\* the installation of the requirements failed and the call has returned
C18_Witness ==
    /\ Returned("c1") /\ tool["c1"] = "python_execute"
    /\ args["c1"].packages # {} /\ why["c1"] = "thrown" /\ perr["c1"] = ""
    /\ resp["c1"].isError /\ run["c1"] = 0 /\ ~imageDir /\ temps = {}

\* the steps of one run, in order
Phase(l) ==
    CASE l = "idle" -> 0
      [] l \in EnvPhase -> 1
      [] l = "xp_scratch" -> 2
      [] l \in {"xp_acc", "xp_child", "xp_run"} -> 3
      [] l \in {"xp_glob", "xp_stat"} -> 4
      [] l \in {"xp_sweep", "xp_settle"} -> 5
      [] OTHER -> 6

\* C19: a python_execute goes through its steps in order: environment (with
\* the requirements), instrumentation and scratch file, child, collection,
\* cleanup.  The scratch file is written only after the requirements step,
\* the artifact directory is deleted only by the cleanup, after collection,
\* and a call that created scratch resources returns only from its cleanup.
C19_StepsInOrder ==
    [][\A c \in Calls :
         (tool[c] = "python_execute" /\ pc'[c] # pc[c] /\ pc'[c] # "idle") =>
            /\ Phase(pc'[c]) >= Phase(pc[c])
            /\ pc'[c] = "xp_scratch" => pc[c] \in {"xp_reqs", "ip_run"}
            /\ (pc'[c] = "ret" /\ run'[c] # 0) => pc[c] = "xp_settle"
            /\ (imageDir /\ ~imageDir') => pc[c] = "xp_settle"]_vars

\* a run collected an image, cleaned up and returned
C19_Witness ==
    /\ Returned("c1") /\ RanSnippet("c1")
    /\ Len(resp["c1"].images) > 0 /\ ~imageDir /\ run["c1"] \notin temps

\* the child of the run was stopped by exec: timeout or output ceiling
KilledByExec(c) == why[c] \in {"timeout", "maxbuffer"}

\* C20: a python_execute whose snippet does not end by itself returns after
\* its child was terminated at the timeout or at the output ceiling: when it
\* has returned, the run's interpreter is no longer running.
C20_ChildTerminated ==
    \A c \in Calls :
        (Returned(c) /\ RanSnippet(c) /\ KilledByExec(c)) => ~orph[c]

\* the suggestion the rules give when the first that matches wins, in the
\* order: timeout, the four texts in stderr, killed by another signal
FirstMatch(d) ==
    IF d.outcome = "timeout" THEN TimeoutHint
    ELSE IF "ModuleNotFoundError" \in d.stderr THEN "install the missing module"
    ELSE IF "SyntaxError" \in d.stderr THEN "check your syntax"
    ELSE IF "MemoryError" \in d.stderr THEN "reduce data size or increase memory limits"
    ELSE IF "Permission" \in d.stderr THEN "check file permissions"
    ELSE IF d.outcome = "signal" \/ d.killed THEN KilledHint
    ELSE ""

\* C21: the suggestion attached to a failure is the one of the first rule
\* that matches, in the order timeout, ModuleNotFoundError, SyntaxError,
\* MemoryError, Permission, killed by a non-timeout signal, none; a text
\* rule wins over the kill.
C21_FirstMatchWins ==
    attempt = "diagnosed" => errorAnalysis = FirstMatch(errorDetails)

\* C22: a python_execute that got as far as its scratch file and failed
\* returns the failure itself, as the structured outcome with isError = TRUE
\* that carries the error's message; no error is thrown on to the call
\* handler.
C22_FailuresAreOutcomes ==
    \A c \in Calls :
        (Returned(c) /\ RanSnippet(c) /\ resp[c].isError) =>
            /\ why[c] # "thrown"
            /\ resp[c].text = FailureText

\* C23: a call of ensure removes the environment at most once: it starts a
\* removal only from its first probe, never after it has already removed and
\* rebuilt, and never from a creation that failed.
C23_OneRebuild ==
    [][\A c \in Calls :
         (pc'[c] = "ens_rm" /\ pc[c] # "ens_rm") =>
            /\ Rebuilds(stk[c]) = 0
            /\ pc[c] \in {"ens", "ens_probe"}]_vars

\* the directory is there and its interpreter is missing, not executable or
\* does not run
Corrupted == venvDir /\ ~PythonRuns(py)

\* C24: an ensure that finds a corrupted environment goes on to the removal
\* of the whole directory, never to its return; it reports an environment
\* ready only when the interpreter runs; and a creation starts only from the
\* absent state, so that nothing is repaired in place.
C24_CorruptedIsRebuilt ==
    [][\A c \in Calls :
         /\ (pc[c] \in {"ens", "ens_probe"} /\ Corrupted /\ pc'[c] # pc[c])
               => pc'[c] \in {"ens_probe", "ens_rm"}
         /\ (pc'[c] = "ens_ok" /\ pc[c] # "ens_ok") => (venvDir' /\ PythonRuns(py'))
         /\ (pc'[c] = "ens_venv" /\ pc[c] # "ens_venv") => (~venvDir /\ EnvEmpty)
         /\ (pc[c] = "ens_rm2" /\ pc'[c] = "ens_again") => (~venvDir' /\ EnvEmpty')]_vars

\* an ensure that found the interpreter broken has removed the directory,
\* built a new environment and is about to return
C24_Witness ==
    /\ pc["c1"] = "ens_ok" /\ Rebuilds(stk["c1"]) = 1
    /\ EnvValid /\ pip

ToolchainMissing == "Neither python3 nor python found in PATH"

\* C25: on an absent environment ensure tries python3 first and python only
\* when python3 did not resolve; when neither resolves the call ends there
\* with the toolchain-missing error, without another attempt, and the
\* environment is still absent.
C25_ToolchainFallback ==
    [][\A c \in Calls :
         /\ (pc[c] = "ens_ver" /\ pc'[c] # pc[c]) =>
               pc'[c] = (IF toolchain = "python3" THEN "ens_venv" ELSE "ens_ver2")
         /\ (pc'[c] = "ens_ver2" /\ pc[c] # "ens_ver2") => pc[c] = "ens_ver"
         /\ (pc[c] = "ens_ver2" /\ pc'[c] # pc[c]) =>
               IF toolchain = "python"
                 THEN pc'[c] = "ens_venv"
                 ELSE /\ pc'[c] = "ret"
                      /\ resp'[c] = HandlerError(ToolchainMissing)
                      /\ ~venvDir' /\ EnvEmpty']_vars

\* no interpreter on the machine: the call has returned the error, there is
\* no environment directory
C25_Witness ==
    /\ Returned("c1") /\ toolchain = "none"
    /\ resp["c1"] = HandlerError(ToolchainMissing)
    /\ ~venvDir /\ EnvEmpty

\* the request is one that is not to remove anything of the environment
Preserving(c) ==
    \/ tool[c] \in {"python_install_package", "python_list_packages"}
    \/ tool[c] = "python_execute" /\ ~args[c].setup_venv

\* C26: while a python_execute without setup_venv, an installPackages or a
\* listPackages works on a valid environment, no step removes the directory
\* or the interpreter, and the set of installed packages never gets smaller,
\* also when pip fails.
C26_NothingRemoved ==
    [][\A c \in Calls :
         (Preserving(c) /\ Active(c) /\ EnvValid) =>
            /\ venvDir' /\ PythonRuns(py')
            /\ pip => pip'
            /\ pkgs \subseteq pkgs']_vars

\* an installation failed on an environment that holds a package: the
\* package is still there
C26_Witness ==
    /\ Returned("c1") /\ tool["c1"] = "python_install_package"
    /\ resp["c1"] = HandlerError("Failed to install packages")
    /\ EnvValid /\ pkgs = Packages

\* the files of the directory that collectImages accepts, in discovery order
ValidImages == SelectSeq(dirFiles, ValidImage)

\* C27: collectImages skips the invalid files and caps what passed: it
\* returns the first min(n, 3) of the n valid images of the directory, so 3
\* whenever there are at least 3, whatever invalid files come before them.
C27_CapAfterValidation ==
    CollectDone =>
        /\ Len(collected) = (IF Len(ValidImages) < 3 THEN Len(ValidImages) ELSE 3)
        /\ \A k \in DOMAIN collected : collected[k].data = ValidImages[k].owner

\* the command has been built for the child
Built == attempt # "off"

\* C28: a run whose command carries no memory ceiling although a limit is
\* configured has logged the warning that the limit is not enforced; the
\* ceiling, where it is applied, is `ulimit -v` of maxMemoryMB * 1024 KB.
C28_UnenforcedIsWarned ==
    Built =>
        /\ (maxMemoryMB > 0 /\ execCommand.ulimit = 0) => warned
        /\ execCommand.ulimit # 0 => execCommand.ulimit = maxMemoryMB * 1024

C30_LeftoverRemoved ==
    [][\A c \in Calls :
         /\ (pc[c] = "xp_sweep" /\ pc'[c] = "xp_settle" /\ ~sweepFailed'[c]) =>
               \A t \in temps \cap stale : t # run[c] => t \in del'[c].sweep
         /\ (pc[c] = "xp_settle" /\ pc'[c] = "ret" /\ ~sweepFailed'[c]) =>
               \A t \in del[c].sweep : t \notin temps']_vars

\* a run has returned after it removed the file the dead process left
C30_Witness ==
    /\ Returned("c1") /\ RanSnippet("c1")
    /\ del["c1"].sweep = {Leftover} /\ ~sweepFailed["c1"]
    /\ Leftover \notin temps

\* C31: the deletions of the finally block are started for whatever exists
\* (the scratch file, workspace/images, the stale files the scan listed),
\* each one takes effect unless it is the one that failed (a failed scan
\* sweeps nothing and leaves the other two alone), and the call returns the
\* response, or throws the error, it had before the cleanup, whichever of
\* them failed.
C31_CleanupIndependent ==
    [][\A c \in Calls :
         /\ (pc[c] # "xp_sweep" /\ pc'[c] = "xp_sweep") =>
               /\ del'[c].temp = (run'[c] \in temps')
               /\ del'[c].img = imageDir'
         /\ (pc[c] = "xp_sweep" /\ pc'[c] = "xp_settle") =>
               /\ del'[c].temp = del[c].temp /\ del'[c].img = del[c].img
               /\ "scan" \notin cleanupWarnings'[c] =>
                     del'[c].sweep = SweepTasks(WorkDirListing, run[c])
         /\ (pc[c] = "xp_settle" /\ pc'[c] # "xp_settle") =>
               /\ (del[c].temp /\ "temp" \notin cleanupWarnings'[c]) =>
                     run[c] \notin temps'
               /\ (del[c].img /\ "img" \notin cleanupWarnings'[c]) => ~imageDir'
               /\ "sweep" \notin cleanupWarnings'[c] => del[c].sweep \cap temps' = {}
               /\ pc'[c] = "ret"
               /\ resp'[c] = IF perr[c] # "" THEN HandlerError(perr[c]) ELSE resp[c]
               /\ why'[c] = IF perr[c] # "" THEN "thrown" ELSE why[c]]_vars

\* a run whose child exited zero has returned its success response although
\* the unlink of its scratch file failed; workspace/images is gone
C31_Witness ==
    /\ Returned("c1") /\ why["c1"] = "exit0"
    /\ cleanupWarnings["c1"] = {"temp"}
    /\ del["c1"].temp /\ del["c1"].img
    /\ run["c1"] \in temps /\ ~imageDir
    /\ ~resp["c1"].isError

\* C32: plt.savefig with an absolute destination writes the current
\* figure's file at that destination, leaves IMAGE_DIR and the counter as
\* they are and records the figure's id; no plt.show() and no final pass
\* after it writes a file of that figure into IMAGE_DIR.
C32_AbsoluteSaveHonoured ==
    [][/\ (savedAbs' # savedAbs \/ outside' # outside) =>
            /\ artifacts' = artifacts /\ image_counter' = image_counter
            /\ open # <<>>
            /\ open[Len(open)] \in saved_figures'
            /\ objAt[open[Len(open)]] \in savedAbs'
            /\ \E fname \in AbsPaths :
                 outside' = WriteFile(outside, fname, objAt[open[Len(open)]])
       /\ (shows' # shows \/ phase' = "done") =>
            /\ outside' = outside
            /\ \A o \in savedAbs : FilesOf(o)' = FilesOf(o)]_vars

\* a figure was saved to /out/a.png, then displayed, and the snippet is over:
\* the file is where the caller said and IMAGE_DIR is empty
C32_Witness ==
    /\ phase = "done" /\ ops = {"figure", "savefig", "show"}
    /\ savedAbs = {1} /\ savedRel = {} /\ displayed = {1}
    /\ outside = {[path |-> "/out/a.png", obj |-> 1]}
    /\ artifacts = {}

\* the run of c is between the return of its ensure and the exit of its child
Executing(c) ==
    tool[c] = "python_execute" /\ pc[c] \in {"xp_reqs", "xp_scratch", "xp_acc", "xp_child", "xp_run"}

\* C33: while a python_execute run is between the return of its ensure and
\* the exit of its child, no step of another request takes the environment's
\* directory or its interpreter away.
C33_EnvironmentStaysUnderRun ==
    [][\A c \in Calls :
         (Executing(c) /\ Executing(c)' /\ EnvValid) => EnvValid']_vars

\* C34: when ensure finds the directory and its probe of the interpreter
\* succeeds, the environment's pip is there, and the getPipPath that
\* installPackages and listPackages call next does not throw.
C34_PipAfterEnsure ==
    [][\A c \in Calls :
         /\ (pc[c] = "ens_probe" /\ pc'[c] = "ens_ok") => pip'
         /\ pc[c] \in {"ip_pip", "lp_pip"} => pc'[c] # "ret"]_vars

\* C35: the response of a python_execute is the images, then one text
\* (the record's images and text).  A response with isError carries no image,
\* also when the snippet wrote image files before it failed or was killed:
\* they are deleted with workspace/images and were never read.  Images come
\* only with a zero exit, at most MaxReturned of them (a run writes at most
\* MaxImages files here; directories of more than MaxReturned files are
\* followed through collectImages under SpecCollect, C14).
C35_FailureCarriesNoImages ==
    \A c \in Calls :
        (Returned(c) /\ tool[c] = "python_execute") =>
            /\ resp[c].isError => resp[c].images = <<>>
            /\ resp[c].images # <<>> => (~resp[c].isError /\ why[c] = "exit0")
            /\ Len(resp[c].images) <= MaxReturned
            /\ resp[c].text # ""
            /\ (resp[c].isError /\ cnt[c] > 0 /\ "img" \notin cleanupWarnings[c])
                   => (~imageDir /\ snap[c] = <<>>)

\* a run killed at the timeout after its snippet had written two image
\* files has returned: a failure without images, workspace/images is gone
C35_Witness ==
    /\ Returned("c1") /\ tool["c1"] = "python_execute" /\ why["c1"] = "timeout"
    /\ cnt["c1"] = MaxImages /\ ~orph["c1"]
    /\ resp["c1"].isError /\ resp["c1"].images = <<>>
    /\ cleanupWarnings["c1"] = {} /\ ~imageDir

\* C36: _image_counter never goes down, every file in IMAGE_DIR carries a
\* number below it, and every file a step of the snippet adds (plot_<n>.png,
\* saved_<n>.png, pil_<n>.png) carries a number that was not below it
\* before: no two files of a run have the same name and none is replaced.
C36_NamesNeverReused ==
    [][/\ image_counter' >= image_counter
       /\ artifacts \subseteq artifacts'
       /\ \A f \in artifacts' : f.n < image_counter'
       /\ \A f \in artifacts' \ artifacts :
            /\ f.n >= image_counter
            /\ \A g \in artifacts : <<g.prefix, g.n>> # <<f.prefix, f.n>>
       /\ \A f, g \in artifacts' :
            (f.prefix = g.prefix /\ f.n = g.n) => f = g]_vars

\* the snippet called plt.show, plt.savefig and image.show and is over: two
\* files of different hooks, under the numbers 0 and 1
C36_Witness ==
    /\ phase = "done" /\ image_counter = 2
    /\ {"show", "savefig", "pil"} \subseteq ops
    /\ Cardinality(artifacts) = 2
    /\ {f.n : f \in artifacts} = {0, 1}
    /\ Cardinality({f.prefix : f \in artifacts}) = 2

====
